---- MODULE Spec2Model ----
(***************************************************************************)
(* Model of the pylint GitHub Action (src/index.js).                       *)
(*                                                                         *)
(* run() tokenises the `pylint-args` input, appends --output-format=json,  *)
(* launches pylint and accumulates its stdout.  Nothing is attached to the *)
(* promise but a .catch handler: on a rejection it either reports a usage  *)
(* error (exit code 32 sniffed from the error message) or decodes the      *)
(* buffer and hands it to reportResults().                                 *)
(*                                                                         *)
(* Text is modelled at two granularities.  The input string and the error  *)
(* message of exec are sequences of one-character strings, so that         *)
(* tokenising and indexOf are computed.  The stdout buffer is a sequence   *)
(* of chunks (JSON tokens), so that JSON.parse is a parser that fails on a *)
(* truncated or malformed buffer.                                          *)
(***************************************************************************)
EXTENDS Integers, Sequences, FiniteSets, TLC

VARIABLES
    pc,             \* "start", "running", "rejected", "done"
    input,          \* core.getInput('pylint-args'), a sequence of characters
    pylintArgs,     \* the argument array of run()
    execArgs,       \* the argument list exec.exec was called with
    pylintOutput,   \* the stdout buffer, a sequence of chunks
    exitCode,       \* exit code of the pylint process, -1 while it runs
    pylintError,    \* the rejection reason of exec.exec, <<>> when none
    parsed,         \* results of the JSON.parse calls made so far
    buckets,        \* the five filtered lists of the reportResults call made
    coreCalls,      \* calls of core.setFailed/error/warning/notice, in order
    consoleErrors   \* arguments of the console.error calls, in order

vars == <<pc, input, pylintArgs, execArgs, pylintOutput, exitCode, pylintError,
          parsed, buckets, coreCalls, consoleErrors>>

\* Largest number of diagnostics pylint writes in one run.
MaxMessages == 3

(***************************************************************************)
(* Inputs.                                                                 *)
(***************************************************************************)

\* Values of the `pylint-args` input: "", "src" and "-E  src".
Inputs ==
    { <<>>,
      <<"s", "r", "c">>,
      <<"-", "E", " ", " ", "s", "r", "c">> }

\* Exit codes of the pylint process.
ExitCodes == {0, 2, 3, 23, 32}

Diag(type, id, symbol, path, line, column, message, module) ==
    [type |-> type, symbol |-> symbol, path |-> path, line |-> line,
     column |-> column, message |-> message, module |-> module]
        @@ ("message-id" :> id)

WithObj(d, obj) == d @@ [obj |-> obj]

\* Diagnostic records pylint may write.  `obj` is present, empty or absent;
\* `fatal` is a pylint type outside the five the action filters on.
Diagnostics ==
    { WithObj(Diag("error", "E1", "bad-thing", "a.py", 3, 1, "bad", "a"), "foo"),
      Diag("error", "E0602", "undefined-variable", "b.py", 7, 0, "undefined x", "b"),
      WithObj(Diag("warning", "W0611", "unused-import", "a.py", 1, 0, "unused os", "a"), ""),
      WithObj(Diag("convention", "C0114", "missing-module-docstring", "a.py", 1, 0,
                   "no docstring", "a"), ""),
      WithObj(Diag("refactor", "R0201", "no-self-use", "a.py", 12, 4, "no self", "a"),
              "Foo.bar"),
      WithObj(Diag("info", "I0011", "locally-disabled", "b.py", 2, 0, "disabled", "b"), ""),
      WithObj(Diag("fatal", "F0001", "fatal", "c.py", 1, 0, "no such file", "c"), "") }

(***************************************************************************)
(* Argument builder.                                                       *)
(***************************************************************************)

RECURSIVE SplitWords(_, _, _)
SplitWords(cs, cur, acc) ==
    IF cs = <<>>
    THEN IF cur = "" THEN acc ELSE Append(acc, cur)
    ELSE IF Head(cs) = " "
         THEN SplitWords(Tail(cs), "", IF cur = "" THEN acc ELSE Append(acc, cur))
         ELSE SplitWords(Tail(cs), cur \o Head(cs), acc)

\* shellParse on strings without quotes or operators: split on white space.
ShellParse(cs) == SplitWords(cs, "", <<>>)

OutputFormatFlag == "--output-format=json"

BuildArgs(cs) == Append(ShellParse(cs), OutputFormatFlag)

(***************************************************************************)
(* Process runner.                                                         *)
(***************************************************************************)

LBracket == [kind |-> "["]
RBracket == [kind |-> "]"]
Comma == [kind |-> ","]
Garbage == [kind |-> "garbage"]
Obj(d) == [kind |-> "object", value |-> d]

NumObjects(buf) == Cardinality({i \in 1..Len(buf) : buf[i].kind = "object"})

\* The chunks pylint can write next: the serialisation of a list of
\* diagnostics, a lone object, or text that is not JSON.
NextChunks(buf) ==
    IF buf = <<>>
    THEN {LBracket, Garbage} \cup {Obj(d) : d \in Diagnostics}
    ELSE LET last == buf[Len(buf)].kind
             more == IF NumObjects(buf) < MaxMessages
                     THEN {Obj(d) : d \in Diagnostics} ELSE {}
         IN  IF buf[1].kind # "[" THEN {}
             ELSE IF last = "[" THEN more \cup {RBracket}
             ELSE IF last = "," THEN more
             ELSE IF last = "object" THEN {Comma, RBracket}
             ELSE {}

Digit(d) == <<"0", "1", "2", "3", "4", "5", "6", "7", "8", "9">>[d + 1]

RECURSIVE NumChars(_)
NumChars(n) == IF n < 10 THEN <<Digit(n)>> ELSE NumChars(n \div 10) \o <<Digit(n % 10)>>

ExitCodeText == <<"e", "x", "i", "t", " ", "c", "o", "d", "e", " ">>

\* The message of the error exec rejects with:
\* "The process 'pylint' failed with exit code <code>".
ExecErrorMessage(code) ==
    <<"T", "h", "e", " ", "p", "r", "o", "c", "e", "s", "s", " ", "'",
      "p", "y", "l", "i", "n", "t", "'", " ", "f", "a", "i", "l", "e", "d", " ",
      "w", "i", "t", "h", " ">> \o ExitCodeText \o NumChars(code)

\* Variant: the promise rejects whatever the exit code.
ExecRejectsAlways(code) == code >= 0

\* exec.exec rejects exactly when the process exits with a non-zero code.
ExecRejects(code) == code # 0

\* String.prototype.indexOf: first 0-based position of needle, or -1.
IndexOf(hay, needle) ==
    LET at == {i \in 0..(Len(hay) - Len(needle)) :
                   SubSeq(hay, i + 1, i + Len(needle)) = needle}
    IN  IF at = {} THEN -1 ELSE CHOOSE i \in at : \A j \in at : i <= j

\* Variant: the usage-error test looks for the wrong exit code.
IsUsageErrorWrongCode(message) == IndexOf(message, ExitCodeText \o <<"3", "1">>) > 0

IsUsageError(message) == IndexOf(message, ExitCodeText \o <<"3", "2">>) > 0

(***************************************************************************)
(* JSON.parse over the chunk sequence.                                     *)
(***************************************************************************)

SyntaxError == [ok |-> FALSE, isArray |-> FALSE, items |-> <<>>]
ArrayValue(items) == [ok |-> TRUE, isArray |-> TRUE, items |-> items]
ObjectValue(d) == [ok |-> TRUE, isArray |-> FALSE, items |-> <<d>>]

\* Elements after "[": i is the next position, acc the elements so far and
\* wantValue says whether a value (rather than "," or "]") must come next.
RECURSIVE ParseElements(_, _, _, _)
ParseElements(buf, i, acc, wantValue) ==
    IF i > Len(buf) THEN SyntaxError
    ELSE IF wantValue
         THEN IF buf[i].kind = "object"
              THEN ParseElements(buf, i + 1, Append(acc, buf[i].value), FALSE)
              ELSE IF buf[i].kind = "]" /\ acc = <<>> /\ i = Len(buf)
                   THEN ArrayValue(acc)
                   ELSE SyntaxError
         ELSE IF buf[i].kind = ","
              THEN ParseElements(buf, i + 1, acc, TRUE)
              ELSE IF buf[i].kind = "]" /\ i = Len(buf)
                   THEN ArrayValue(acc)
                   ELSE SyntaxError

JSONParse(buf) ==
    IF buf = <<>> THEN SyntaxError
    ELSE IF buf[1].kind = "object"
         THEN IF Len(buf) = 1 THEN ObjectValue(buf[1].value) ELSE SyntaxError
         ELSE IF buf[1].kind = "["
              THEN ParseElements(buf, 2, <<>>, TRUE)
              ELSE SyntaxError

(***************************************************************************)
(* Result classifier and reporter.                                         *)
(***************************************************************************)

\* Variant: `message.type = type` (an assignment, always truthy) keeps every
\* message and stamps it with the type.
FilterAssign(pylintMessages, type) ==
    [i \in 1..Len(pylintMessages) |-> [pylintMessages[i] EXCEPT !.type = type]]

\* Array.prototype.filter(message => message.type === type).
Filter(pylintMessages, type) ==
    SelectSeq(pylintMessages, LAMBDA message : message.type = type)

RECURSIVE Join(_, _)
Join(lines, sep) ==
    IF lines = <<>> THEN ""
    ELSE IF Len(lines) = 1 THEN lines[1]
    ELSE lines[1] \o sep \o Join(Tail(lines), sep)

\* `${pylintArgs}`: Array.prototype.toString joins the elements with ",".
ArrayToString(args) == Join(args, ",")

SummaryTitle(args) ==
    "Pylint linter issues detected: (options '" \o ArrayToString(args) \o "')"

\* Variant: the entry is appended for an empty bucket too.
AppendToSummaryAlways(summaryLines, messages, severity) ==
    Append(summaryLines, ToString(Len(messages)) \o " " \o severity)

AppendToSummaryIfNonEmpty(summaryLines, messages, severity) ==
    IF Len(messages) # 0
    THEN Append(summaryLines, ToString(Len(messages)) \o " " \o severity)
    ELSE summaryLines

\* Variant: the summary lists refactor before convention.
SummaryRefactorFirst(b, args) ==
    LET l0 == <<SummaryTitle(args)>>
        l1 == AppendToSummaryIfNonEmpty(l0, b.pylintErrors, "error")
        l2 == AppendToSummaryIfNonEmpty(l1, b.pylintWarnings, "warning")
        l3 == AppendToSummaryIfNonEmpty(l2, b.pylintRefactor, "refactor")
        l4 == AppendToSummaryIfNonEmpty(l3, b.pylintConvention, "convention")
        l5 == AppendToSummaryIfNonEmpty(l4, b.pylintInfo, "info")
    IN  Join(l5, "\n\n")


Summary(b, args) ==
    LET l0 == <<SummaryTitle(args)>>
        l1 == AppendToSummaryIfNonEmpty(l0, b.pylintErrors, "error")
        l2 == AppendToSummaryIfNonEmpty(l1, b.pylintWarnings, "warning")
        l3 == AppendToSummaryIfNonEmpty(l2, b.pylintConvention, "convention")
        l4 == AppendToSummaryIfNonEmpty(l3, b.pylintRefactor, "refactor")
        l5 == AppendToSummaryIfNonEmpty(l4, b.pylintInfo, "info")
    IN  Join(l5, "\n\n")

AnnotationProperties(message) ==
    [title |-> "Linter " \o message.type \o " " \o message["message-id"]
                   \o " (" \o message.symbol \o ")",
     file |-> message.path,
     startLine |-> message.line,
     endLine |-> message.line,
     startColumn |-> message.column,
     endColumn |-> message.column]

\* Variant: message.obj ?? message.module, an empty obj does not fall back.
ObjOrModuleNullish(message) ==
    IF "obj" \in DOMAIN message THEN message.obj ELSE message.module

\* message.obj || message.module: an absent (undefined) or empty obj is falsy.
ObjOrModule(message) ==
    IF "obj" \in DOMAIN message /\ message.obj # ""
    THEN message.obj
    ELSE message.module

AnnotationMessage(message) ==
    message.message \o "\n\n" \o ObjOrModule(message)
        \o " (" \o message.path \o ":" \o ToString(message.line)
        \o ":" \o ToString(message.column) \o ")"

SetFailed(args) == [fn |-> "setFailed", args |-> args]

Annotate(fn, messages) ==
    [i \in 1..Len(messages) |->
        [fn |-> fn,
         args |-> <<AnnotationMessage(messages[i]), AnnotationProperties(messages[i])>>]]

Classify(pylintMessages) ==
    [pylintErrors |-> Filter(pylintMessages, "error"),
     pylintWarnings |-> Filter(pylintMessages, "warning"),
     pylintConvention |-> Filter(pylintMessages, "convention"),
     pylintRefactor |-> Filter(pylintMessages, "refactor"),
     pylintInfo |-> Filter(pylintMessages, "info")]

\* Variant: the spread lists convention before refactor.
WarningGroupConventionFirst(b) ==
    b.pylintWarnings \o b.pylintConvention \o b.pylintRefactor

\* Variant: the refactor bucket is left out of the warning channel.
WarningGroupNoRefactor(b) == b.pylintWarnings \o b.pylintConvention

\* [...pylintWarnings, ...pylintRefactor, ...pylintConvention]
WarningGroup(b) == b.pylintWarnings \o b.pylintRefactor \o b.pylintConvention

\* Variant: core.setFailed is called after the annotations.
ReportCallsFailLast(b, args) ==
    Annotate("error", b.pylintErrors)
        \o Annotate("warning", WarningGroup(b))
        \o Annotate("notice", b.pylintInfo)
        \o <<SetFailed(<<Summary(b, args)>>)>>

\* The core calls of reportResults, in the order it makes them.
ReportCalls(b, args) ==
    <<SetFailed(<<Summary(b, args)>>)>>
        \o Annotate("error", b.pylintErrors)
        \o Annotate("warning", WarningGroup(b))
        \o Annotate("notice", b.pylintInfo)

\* reportResults(value, args).  A decoded value that is not an array has no
\* filter method: the first statement throws a TypeError.
ReportResults(value, args) ==
    IF ~value.isArray
    THEN [threw |-> TRUE, buckets |-> <<>>, calls |-> <<>>]
    ELSE [threw |-> FALSE,
          buckets |-> <<Classify(value.items)>>,
          calls |-> ReportCalls(Classify(value.items), args)]

(***************************************************************************)
(* Actions.                                                                *)
(***************************************************************************)

Init ==
    /\ pc = "start"
    /\ input \in Inputs
    /\ pylintArgs = <<>>
    /\ execArgs = <<>>
    /\ pylintOutput = <<>>
    /\ exitCode = -1
    /\ pylintError = <<>>
    /\ parsed = <<>>
    /\ buckets = <<>>
    /\ coreCalls = <<>>
    /\ consoleErrors = <<>>

\* run(): build the arguments and launch pylint.
Run ==
    /\ pc = "start"
    /\ pylintArgs' = BuildArgs(input)
    /\ execArgs' = BuildArgs(input)
    /\ pc' = "running"
    /\ UNCHANGED <<input, pylintOutput, exitCode, pylintError, parsed, buckets,
                   coreCalls, consoleErrors>>

\* The stdout listener: pylintOutput += data.toString().
StdoutData ==
    /\ pc = "running"
    /\ \E chunk \in NextChunks(pylintOutput) :
           pylintOutput' = Append(pylintOutput, chunk)
    /\ UNCHANGED <<pc, input, pylintArgs, execArgs, exitCode, pylintError, parsed,
                   buckets, coreCalls, consoleErrors>>

\* The process exits and the promise of exec.exec settles.  Nothing is
\* attached to its fulfilment.
ProcessExit ==
    /\ pc = "running"
    /\ \E code \in ExitCodes :
        /\ exitCode' = code
        /\ IF ExecRejects(code)
           THEN /\ pylintError' = <<[name |-> "Error", message |-> ExecErrorMessage(code)]>>
                /\ pc' = "rejected"
           ELSE /\ pylintError' = pylintError
                /\ pc' = "done"
    /\ UNCHANGED <<input, pylintArgs, execArgs, pylintOutput, parsed, buckets,
                   coreCalls, consoleErrors>>

\* The .catch handler.
Catch ==
    /\ pc = "rejected"
    /\ pc' = "done"
    /\ LET err == pylintError[1]
           value == JSONParse(pylintOutput)
           report == ReportResults(value, pylintArgs)
       IN  IF IsUsageError(err.message)
           THEN /\ consoleErrors' = Append(consoleErrors, err)
                /\ coreCalls' = Append(coreCalls, SetFailed(<<>>))
                /\ UNCHANGED <<parsed, buckets>>
           ELSE /\ parsed' = Append(parsed, value)
                /\ IF ~value.ok
                   THEN /\ consoleErrors' =
                               consoleErrors \o <<err, [name |-> "SyntaxError"]>>
                        /\ UNCHANGED <<buckets, coreCalls>>
                   ELSE IF report.threw
                   THEN /\ consoleErrors' =
                               consoleErrors \o <<err, [name |-> "TypeError"]>>
                        /\ coreCalls' = coreCalls \o report.calls
                        /\ UNCHANGED buckets
                   ELSE /\ coreCalls' = coreCalls \o report.calls
                        /\ buckets' = report.buckets
                        /\ UNCHANGED consoleErrors
    /\ UNCHANGED <<input, pylintArgs, execArgs, pylintOutput, exitCode, pylintError>>

Next == Run \/ StdoutData \/ ProcessExit \/ Catch

Spec == Init /\ [][Next]_vars

TypeOK ==
    /\ pc \in {"start", "running", "rejected", "done"}
    /\ exitCode \in ExitCodes \cup {-1}
    /\ Len(parsed) <= 1
    /\ Len(buckets) <= 1

(***************************************************************************)
(* Vocabulary of the properties.                                           *)
(***************************************************************************)

Done == pc = "done"

Channels == {"error", "warning", "notice"}

Recognised == {"error", "warning", "convention", "refactor", "info"}

SeverityOrder == <<"error", "warning", "convention", "refactor", "info">>

SetFailedCalls == SelectSeq(coreCalls, LAMBDA c : c.fn = "setFailed")

Annotations == SelectSeq(coreCalls, LAMBDA c : c.fn \in Channels)

\* The handler decoded the buffer to a list of diagnostics.
DecodedList == parsed # <<>> /\ parsed[1].ok /\ parsed[1].isArray

Items == parsed[1].items

OfTypes(msgs, types) == SelectSeq(msgs, LAMBDA m : m.type \in types)

CountType(msgs, type) == Cardinality({i \in 1..Len(msgs) : msgs[i].type = type})

Occurrences(seq, x) == Cardinality({i \in 1..Len(seq) : seq[i] = x})

Range(seq) == {seq[i] : i \in 1..Len(seq)}

ChannelOf(type) ==
    CASE type = "error" -> "error"
      [] type \in {"warning", "refactor", "convention"} -> "warning"
      [] type = "info" -> "notice"
      [] OTHER -> "none"

\* s can be obtained from t by deleting elements.
RECURSIVE IsSubSeq(_, _)
IsSubSeq(s, t) ==
    IF s = <<>> THEN TRUE
    ELSE IF t = <<>> THEN FALSE
    ELSE IF Head(s) = Head(t) THEN IsSubSeq(Tail(s), Tail(t))
    ELSE IsSubSeq(s, Tail(t))

ExpectedTitle(args) ==
    LET list == IF Len(args) = 1 THEN args[1]
                ELSE IF Len(args) = 2 THEN args[1] \o "," \o args[2]
                ELSE args[1] \o "," \o args[2] \o "," \o args[3]
    IN  "Pylint linter issues detected: (options '" \o list \o "')"

RECURSIVE ExpectedEntries(_, _)
ExpectedEntries(msgs, k) ==
    IF k > Len(SeverityOrder) THEN ""
    ELSE LET n == CountType(msgs, SeverityOrder[k])
         IN  (IF n > 0 THEN "\n\n" \o ToString(n) \o " " \o SeverityOrder[k] ELSE "")
                 \o ExpectedEntries(msgs, k + 1)

ExpectedSummary(msgs, args) == ExpectedTitle(args) \o ExpectedEntries(msgs, 1)

ExpectedContext(d) ==
    IF "obj" \notin DOMAIN d THEN d.module
    ELSE IF d.obj = "" THEN d.module
    ELSE d.obj

ExpectedAnnotation(d) ==
    <<d.message \o "\n\n" \o ExpectedContext(d) \o " (" \o d.path \o ":"
          \o ToString(d.line) \o ":" \o ToString(d.column) \o ")",
      [title |-> "Linter " \o d.type \o " " \o d["message-id"] \o " (" \o d.symbol \o ")",
       file |-> d.path,
       startLine |-> d.line, endLine |-> d.line,
       startColumn |-> d.column, endColumn |-> d.column]>>

ExpectedCalls(fn, msgs) ==
    [i \in 1..Len(msgs) |-> [fn |-> fn, args |-> ExpectedAnnotation(msgs[i])]]

(***************************************************************************)
(* Properties.                                                             *)
(***************************************************************************)

\* C1: after a non-zero, non-32 exit with a buffer that does not decode, the
\* run status has been set to failed, no annotation was emitted, and the
\* decode failure was logged once, apart from the subprocess failure.
C1_UndecodableBufferFailsRun ==
    (Done /\ exitCode \notin {0, 32} /\ ~JSONParse(pylintOutput).ok)
        => /\ Len(SetFailedCalls) >= 1
           /\ Annotations = <<>>
           /\ Occurrences(consoleErrors, pylintError[1]) = 1
           /\ Cardinality({i \in 1..Len(consoleErrors) :
                               consoleErrors[i].name = "SyntaxError"}) = 1

\* C2: after exit code 32 the run status has been set to failed once (the
\* usage-error form, with the subprocess error logged), the buffer was not
\* decoded and no annotation was emitted, whatever the buffer holds.
C2_UsageErrorFailsWithoutDecoding ==
    (Done /\ exitCode = 32)
        => /\ coreCalls = <<SetFailed(<<>>)>>
           /\ consoleErrors = <<pylintError[1]>>
           /\ parsed = <<>>
           /\ buckets = <<>>

C2_Witness ==
    /\ Done /\ exitCode = 32
    /\ JSONParse(pylintOutput).isArray
    /\ JSONParse(pylintOutput).items # <<>>
    /\ coreCalls # <<>>

\* C3: after exit code 0 nothing ever happens: the run status is not set to
\* failed, no summary or annotation is produced and the buffer is not decoded.
C3_ExitZeroIsNoOp ==
    (exitCode = 0)
        => /\ Done
           /\ coreCalls = <<>>
           /\ consoleErrors = <<>>
           /\ parsed = <<>>
           /\ buckets = <<>>

C3_Witness ==
    /\ Done /\ exitCode = 0
    /\ JSONParse(pylintOutput).isArray
    /\ JSONParse(pylintOutput).items # <<>>

\* C4 as stated: the annotations are the errors, then the warning, refactor
\* and convention diagnostics in their input order, then the infos.
C4_WarningChannelInInputOrder ==
    (Done /\ DecodedList)
        => Annotations =
               ExpectedCalls("error", OfTypes(Items, {"error"}))
                   \o ExpectedCalls("warning",
                          OfTypes(Items, {"warning", "refactor", "convention"}))
                   \o ExpectedCalls("notice", OfTypes(Items, {"info"}))

\* C4 as amended: the annotations are the errors, then on the warning
\* channel all warnings, then all refactors, then all conventions, then the
\* infos, each group in input order.
C4_EmissionOrderByBucket ==
    (Done /\ DecodedList)
        => Annotations =
               ExpectedCalls("error", OfTypes(Items, {"error"}))
                   \o ExpectedCalls("warning", OfTypes(Items, {"warning"}))
                   \o ExpectedCalls("warning", OfTypes(Items, {"refactor"}))
                   \o ExpectedCalls("warning", OfTypes(Items, {"convention"}))
                   \o ExpectedCalls("notice", OfTypes(Items, {"info"}))

C4_Witness ==
    /\ Done /\ DecodedList
    /\ \E i, j \in 1..Len(Items) :
           i < j /\ Items[i].type = "convention" /\ Items[j].type = "refactor"
    /\ Len(Annotations) = Len(Items)

\* C5: setFailed is called at most once in a run; when the decoded list is
\* not empty it is called exactly once, with the summary as its message, and
\* no annotation is ever emitted before a setFailed call.
C5_SetFailedOnceAndFirst ==
    /\ Len(SetFailedCalls) <= 1
    /\ (Done /\ DecodedList /\ Items # <<>>)
           => /\ Len(SetFailedCalls) = 1
              /\ SetFailedCalls[1].args = <<ExpectedSummary(Items, execArgs)>>
    /\ \A i, j \in 1..Len(coreCalls) :
           (i < j /\ coreCalls[j].fn = "setFailed") => coreCalls[i].fn \notin Channels

C5_Witness ==
    /\ Done /\ DecodedList
    /\ Len(Annotations) >= 2
    /\ coreCalls[1].fn = "setFailed"

\* C6: each diagnostic of a recognised type is annotated exactly once, on
\* the channel of its type and on no other; a diagnostic of another type is
\* not annotated and raises no error.
C6_OneAnnotationPerDiagnostic ==
    (Done /\ DecodedList)
        => /\ \A d \in Diagnostics : \A ch \in Channels :
                  Occurrences(coreCalls, [fn |-> ch, args |-> ExpectedAnnotation(d)])
                      = IF ChannelOf(d.type) = ch THEN Occurrences(Items, d) ELSE 0
           /\ Len(Annotations) = Len(OfTypes(Items, Recognised))
           /\ consoleErrors = <<>>

C6_Witness ==
    /\ Done /\ DecodedList
    /\ \E i, j \in 1..Len(Items) :
           i # j /\ Items[i] = Items[j] /\ Items[i].type = "refactor"
    /\ \E i \in 1..Len(Items) : Items[i].type \notin Recognised
    /\ Len(Annotations) = 2

\* C7: the failure message is the title line holding the argument list
\* passed to pylint, --output-format=json included, followed by one entry
\* `<count> <severity>` per non-empty bucket in the order error, warning,
\* convention, refactor, info.
C7_SummaryMessage ==
    (Done /\ DecodedList)
        => /\ SetFailedCalls = <<SetFailed(<<ExpectedSummary(Items, execArgs)>>)>>
           /\ execArgs[Len(execArgs)] = OutputFormatFlag

C7_Witness ==
    /\ Done /\ DecodedList
    /\ Len(execArgs) = 3
    /\ CountType(Items, "refactor") = 2
    /\ CountType(Items, "convention") = 1
    /\ SetFailedCalls # <<>>

\* C8: every annotation carries the title, file, one-position span and
\* body of a diagnostic of the list, the context being obj, or module when
\* obj is absent or empty; and every recognised diagnostic has its annotation.
C8_AnnotationContent ==
    (Done /\ DecodedList)
        => /\ \A i \in 1..Len(Annotations) :
                  \E k \in 1..Len(Items) :
                      Annotations[i].args = ExpectedAnnotation(Items[k])
           /\ \A k \in 1..Len(Items) :
                  Items[k].type \in Recognised
                      => \E i \in 1..Len(Annotations) :
                             Annotations[i].args = ExpectedAnnotation(Items[k])

C8_Witness ==
    /\ Done /\ DecodedList
    /\ Len(Annotations) = 3
    /\ \E k \in 1..Len(Items) : "obj" \notin DOMAIN Items[k]
    /\ \E k \in 1..Len(Items) : "obj" \in DOMAIN Items[k] /\ Items[k].obj = ""
    /\ \E k \in 1..Len(Items) : "obj" \in DOMAIN Items[k] /\ Items[k].obj # ""

BucketList(b) ==
    <<b.pylintErrors, b.pylintWarnings, b.pylintConvention, b.pylintRefactor,
      b.pylintInfo>>

\* C9: the five buckets are pairwise disjoint, each is a sub-sequence of the
\* input in input order, and their sizes add up to at most the size of the
\* input, to exactly that when and only when every type is recognised.
C9_BucketsPartition ==
    (Done /\ buckets # <<>>)
        => LET bs == BucketList(buckets[1])
               total == bs[1] \o bs[2] \o bs[3] \o bs[4] \o bs[5]
           IN  /\ \A x, y \in 1..5 : x # y => Range(bs[x]) \cap Range(bs[y]) = {}
               /\ \A x \in 1..5 : IsSubSeq(bs[x], Items)
               /\ Len(total) <= Len(Items)
               /\ (Len(total) = Len(Items))
                      <=> (\A i \in 1..Len(Items) : Items[i].type \in Recognised)

C9_Witness ==
    /\ Done /\ buckets # <<>>
    /\ Len(buckets[1].pylintErrors) = 2
    /\ buckets[1].pylintErrors[1] # buckets[1].pylintErrors[2]
    /\ \E i \in 1..Len(Items) : Items[i].type \notin Recognised

\* C10: after a non-zero, non-32 exit with a buffer that decodes to a list
\* without any diagnostic of a recognised type, setFailed has been called
\* exactly once, with the title line alone, and nothing else was emitted.
C10_NoRecognisedDiagnosticStillFails ==
    (Done /\ exitCode \notin {0, 32}
          /\ JSONParse(pylintOutput).isArray
          /\ OfTypes(JSONParse(pylintOutput).items, Recognised) = <<>>)
        => coreCalls = <<SetFailed(<<ExpectedTitle(execArgs)>>)>>

C10_Witness ==
    /\ Done /\ exitCode \notin {0, 32}
    /\ DecodedList
    /\ Items # <<>>
    /\ \A i \in 1..Len(Items) : Items[i].type \notin Recognised
    /\ Len(coreCalls) = 1

====
